---- MODULE Spec2Model ----
(***************************************************************************)
(* Supermarket receipt: ShoppingCart, Teller, DiscountCalculator, Receipt. *)
(*                                                                         *)
(* Numbers.  Python floats are modelled by exact fixed-point integers:     *)
(*   - a cart quantity is a whole number of 1/QScale units                 *)
(*     (QScale = 2: the integer 5 is the quantity 2.5);                    *)
(*   - a money value (price, bundle amount, line total, discount amount)   *)
(*     is a whole number of 1/MoneyScale cents, and every price is a whole *)
(*     number of cents, so that quantity * price and price * percent / 100 *)
(*     are exact;                                                          *)
(*   - DiscountCalculator.quantity, the result of int(), is a plain        *)
(*     integer;                                                            *)
(*   - a percentage is a plain integer.                                    *)
(***************************************************************************)
EXTENDS Integers, Sequences, FiniteSets, TLC

\* ------------------------------------------------------------------ bounds

\* Resolution of a quantity: quantities are multiples of 1/QScale.
QScale == 2

\* Money units per cent.
MoneyScale == QScale * 100

\* Longest cart history explored.
MaxItems == 3

\* Most add_product / add_discount calls on a receipt under test.
MaxReceiptLen == 3

\* Most total_price() calls in a row on a receipt under test.
MaxTotalCalls == 2

Cents(c) == c * MoneyScale

Qty(n) == n * QScale

HalfQty == QScale \div 2

\* ------------------------------------------------------------ model_objects

EACH == "EACH"

KILO == "KILO"

Product(name, unit) == [name |-> name, unit |-> unit]

ProductQuantity(product, quantity) == [product |-> product, quantity |-> quantity]

THREE_FOR_TWO == "THREE_FOR_TWO"

TEN_PERCENT_DISCOUNT == "TEN_PERCENT_DISCOUNT"

TWO_FOR_AMOUNT == "TWO_FOR_AMOUNT"

FIVE_FOR_AMOUNT == "FIVE_FOR_AMOUNT"

\* An enum member that is no OfferType (tests: UnknownOfferType.UNKNOWN).
UNKNOWN == "UNKNOWN"

OfferType == {THREE_FOR_TWO, TEN_PERCENT_DISCOUNT, TWO_FOR_AMOUNT, FIVE_FOR_AMOUNT}

Offer(offer_type, argument) == [offer_type |-> offer_type, argument |-> argument]

Discount(product, description, discount_amount) ==
    [kind |-> "Discount", product |-> product, description |-> description,
     discount_amount |-> discount_amount]

\* Python's None.
None == [kind |-> "None"]

\* A raised ValueError with its message.
ValueError(message) == [kind |-> "ValueError", message |-> message]

MsgInvalid == "Quantity must be positive and unit price cannot be negative."

MsgUnknown == "Unknown offer type"

MsgPercent == "Discount percentage must be between 0 and 100."

\* ------------------------------------------------------- discount_calculator

\* Mutant of int(quantity): the quantity is rounded up.
IntOf_rounds_up(quantity) ==
    IF quantity >= 0 THEN (quantity + QScale - 1) \div QScale
    ELSE -((-quantity) \div QScale)

\* int(quantity): truncation toward zero of a quantity given in 1/QScale units.
IntOf(quantity) ==
    IF quantity >= 0 THEN quantity \div QScale ELSE -((-quantity) \div QScale)

\* Mutant of __init__: the guard reads quantity < 0, so a zero quantity passes.
DiscountCalculator_accepts_zero(product, quantity, unit_price, offer) ==
    IF quantity < 0 \/ unit_price < 0
    THEN ValueError(MsgInvalid)
    ELSE [kind |-> "DiscountCalculator", product |-> product,
          quantity |-> IntOf(quantity), unit_price |-> unit_price, offer |-> offer]

\* DiscountCalculator.__init__: the calculator object, or the ValueError raised.
DiscountCalculator(product, quantity, unit_price, offer) ==
    IF quantity <= 0 \/ unit_price < 0
    THEN ValueError(MsgInvalid)
    ELSE [kind |-> "DiscountCalculator", product |-> product,
          quantity |-> IntOf(quantity), unit_price |-> unit_price, offer |-> offer]

\* DiscountCalculator.calculate_group_discount (falls off the end: None).
calculate_group_discount(product, quantity, unit_price, group_size, amount) ==
    IF quantity >= group_size
    THEN LET number_of_groups == quantity \div group_size
             total == amount * number_of_groups + (quantity % group_size) * unit_price
             discount_amount == quantity * unit_price - total
         IN  Discount(product, <<group_size, "for", amount>>, -discount_amount)
    ELSE None

\* Mutant of amount_discount: a group needs more than group_size units.
amount_discount_strict(product, quantity, unit_price, group_size, amount) ==
    IF quantity > group_size
    THEN LET number_of_groups == quantity \div group_size
             total == amount * number_of_groups + (quantity % group_size) * unit_price
             discount_amount == quantity * unit_price - total
         IN  Discount(product, <<group_size, "for", amount>>, -discount_amount)
    ELSE None

\* DiscountCalculator.amount_discount.
amount_discount(product, quantity, unit_price, group_size, amount) ==
    IF quantity >= group_size
    THEN LET number_of_groups == quantity \div group_size
             total == amount * number_of_groups + (quantity % group_size) * unit_price
             discount_amount == quantity * unit_price - total
         IN  Discount(product, <<group_size, "for", amount>>, -discount_amount)
    ELSE None

\* Mutant of three_for_two_discount: the bundle price is the offer's argument.
three_for_two_uses_argument(self) ==
    calculate_group_discount(self.product, self.quantity, self.unit_price, 3,
                             self.offer.argument)

\* DiscountCalculator.three_for_two_discount.
three_for_two_discount(self) ==
    calculate_group_discount(self.product, self.quantity, self.unit_price, 3,
                             2 * self.unit_price)

\* DiscountCalculator.two_for_amount_discount.
two_for_amount_discount(self) ==
    amount_discount(self.product, self.quantity, self.unit_price, 2, self.offer.argument)

\* DiscountCalculator.five_for_amount_discount.
five_for_amount_discount(self) ==
    amount_discount(self.product, self.quantity, self.unit_price, 5, self.offer.argument)

\* Mutant of ten_percent_discount: the bounds 0 and 100 are themselves rejected.
ten_percent_open_interval(self) ==
    IF ~(0 < self.offer.argument /\ self.offer.argument < 100)
    THEN ValueError(MsgPercent)
    ELSE LET discount_amount ==
                 -((self.quantity * self.unit_price * self.offer.argument) \div 100)
         IN  Discount(self.product, <<self.offer.argument, "% off">>, discount_amount)

\* DiscountCalculator.ten_percent_discount.
\* -quantity * unit_price * (argument / 100.0); unit_price is a whole number
\* of cents, hence a multiple of 100 money units, and the division is exact.
ten_percent_discount(self) ==
    IF ~(0 <= self.offer.argument /\ self.offer.argument <= 100)
    THEN ValueError(MsgPercent)
    ELSE LET discount_amount ==
                 -((self.quantity * self.unit_price * self.offer.argument) \div 100)
         IN  Discount(self.product, <<self.offer.argument, "% off">>, discount_amount)

\* Mutant of calculate_discount: an unknown offer type yields None, as the
\* method's docstring has it, instead of raising.
calculate_discount_skips_unknown(self) ==
    CASE self.offer.offer_type = THREE_FOR_TWO -> three_for_two_discount(self)
      [] self.offer.offer_type = TWO_FOR_AMOUNT -> two_for_amount_discount(self)
      [] self.offer.offer_type = FIVE_FOR_AMOUNT -> five_for_amount_discount(self)
      [] self.offer.offer_type = TEN_PERCENT_DISCOUNT -> ten_percent_discount(self)
      [] OTHER -> None

\* DiscountCalculator.calculate_discount: dispatch on the offer type.
calculate_discount(self) ==
    CASE self.offer.offer_type = THREE_FOR_TWO -> three_for_two_discount(self)
      [] self.offer.offer_type = TWO_FOR_AMOUNT -> two_for_amount_discount(self)
      [] self.offer.offer_type = FIVE_FOR_AMOUNT -> five_for_amount_discount(self)
      [] self.offer.offer_type = TEN_PERCENT_DISCOUNT -> ten_percent_discount(self)
      [] OTHER -> ValueError(MsgUnknown)

\* ------------------------------------------------------------------ receipt

ReceiptItem(product, quantity, price, total_price) ==
    [product |-> product, quantity |-> quantity, price |-> price,
     total_price |-> total_price]

\* Receipt.__init__.
Receipt == [kind |-> "Receipt", items |-> <<>>, discounts |-> <<>>]

\* Receipt.add_product.
add_product(receipt, product, quantity, price, total_price) ==
    [receipt EXCEPT !.items = Append(@, ReceiptItem(product, quantity, price, total_price))]

\* Receipt.add_discount.
add_discount(receipt, discount) ==
    [receipt EXCEPT !.discounts = Append(@, discount)]

\* sum(item.total_price for item in self.items), left to right from 0.
RECURSIVE SumTotalPrice(_)
SumTotalPrice(items) ==
    IF items = <<>> THEN 0
    ELSE SumTotalPrice(SubSeq(items, 1, Len(items) - 1)) + items[Len(items)].total_price

\* sum(discount.discount_amount for discount in self.discounts).
RECURSIVE SumDiscountAmount(_)
SumDiscountAmount(discounts) ==
    IF discounts = <<>> THEN 0
    ELSE SumDiscountAmount(SubSeq(discounts, 1, Len(discounts) - 1))
         + discounts[Len(discounts)].discount_amount

\* round(total, 2): to a whole number of cents, a tie going to the even cent.
Round2(total) ==
    LET lo == total \div MoneyScale
        r  == total % MoneyScale
    IN  IF 2 * r < MoneyScale THEN lo * MoneyScale
        ELSE IF 2 * r > MoneyScale THEN (lo + 1) * MoneyScale
        ELSE IF lo % 2 = 0 THEN lo * MoneyScale ELSE (lo + 1) * MoneyScale

\* Mutant of total_price: the discounts are subtracted instead of added.
total_price_minus_discounts(receipt) ==
    Round2(SumTotalPrice(receipt.items) - SumDiscountAmount(receipt.discounts))

\* Receipt.total_price.
total_price(receipt) ==
    LET total_price_ == SumTotalPrice(receipt.items)
        total_discounts == SumDiscountAmount(receipt.discounts)
        total == total_price_ + total_discounts
    IN  Round2(total)

\* discount_calculator = DiscountCalculator(...); discount_calculator.calculate_discount()
\* as handle_offers chains them: the Discount, None, or the ValueError raised.
computed_discount(product, quantity, unit_price, offer) ==
    LET discount_calculator == DiscountCalculator(product, quantity, unit_price, offer)
    IN  IF discount_calculator.kind = "ValueError" THEN discount_calculator
        ELSE calculate_discount(discount_calculator)

\* ------------------------------------------------------------ shopping_cart

\* dict.get(product, 0) on the insertion-ordered dict, kept as a sequence of
\* (product, quantity) entries with unique products.
RECURSIVE DictGet(_, _, _)
DictGet(dict, product, default) ==
    IF dict = <<>> THEN default
    ELSE IF dict[1].product = product THEN dict[1].quantity
    ELSE DictGet(Tail(dict), product, default)

\* Mutant of the dict assignment: every assignment appends an entry, so a
\* product added twice is held twice.
DictSet_always_appends(dict, product, quantity) ==
    Append(dict, ProductQuantity(product, quantity))

\* Mutant of the dict assignment: an updated key moves to the end.
DictSet_moves_to_end(dict, product, quantity) ==
    Append(SelectSeq(dict, LAMBDA e : e.product # product),
           ProductQuantity(product, quantity))

\* dict[product] = quantity: an existing key keeps its place, a new one goes last.
DictSet(dict, product, quantity) ==
    IF \E i \in 1..Len(dict) : dict[i].product = product
    THEN [i \in 1..Len(dict) |->
             IF dict[i].product = product THEN ProductQuantity(product, quantity)
             ELSE dict[i]]
    ELSE Append(dict, ProductQuantity(product, quantity))

\* Mutant of add_item_quantity: the merged map takes the last quantity
\* instead of accumulating.
add_item_quantity_overwrite(cart, product, quantity) ==
    [_items |-> Append(cart._items, ProductQuantity(product, quantity)),
     _product_quantities |-> DictSet(cart._product_quantities, product, quantity)]

\* Mutant of add_item_quantity: a repeated product is merged in the history
\* too, its first entry taking the running quantity.
add_item_quantity_merges_history(cart, product, quantity) ==
    LET merged == DictSet(cart._product_quantities, product,
                          DictGet(cart._product_quantities, product, 0) + quantity)
    IN  [_items |-> IF \E i \in 1..Len(cart._items) : cart._items[i].product = product
                    THEN DictSet(cart._items, product,
                                 DictGet(cart._product_quantities, product, 0) + quantity)
                    ELSE Append(cart._items, ProductQuantity(product, quantity)),
         _product_quantities |-> merged]

\* ShoppingCart.add_item_quantity: the new (_items, _product_quantities).
add_item_quantity(cart, product, quantity) ==
    [_items |-> Append(cart._items, ProductQuantity(product, quantity)),
     _product_quantities |->
         DictSet(cart._product_quantities, product,
                 DictGet(cart._product_quantities, product, 0) + quantity)]

\* ShoppingCart.add_item.
add_item(cart, product) == add_item_quantity(cart, product, Qty(1))

\* Mutant of handle_offers: the quantity is validated per cart entry, so one
\* non-positive addition of an offered product fails the checkout.
RECURSIVE handle_offers_validates_entries(_, _, _, _, _)
handle_offers_validates_entries(cart, receipt, offers_, catalog_, i) ==
    IF i > Len(cart._product_quantities) THEN receipt
    ELSE LET product  == cart._product_quantities[i].product
             quantity == cart._product_quantities[i].quantity
         IN  IF product \notin DOMAIN offers_
             THEN handle_offers_validates_entries(cart, receipt, offers_, catalog_, i + 1)
             ELSE IF \E k \in 1..Len(cart._items) :
                         /\ cart._items[k].product = product
                         /\ cart._items[k].quantity <= 0
             THEN ValueError(MsgInvalid)
             ELSE LET discount_calculator ==
                          DiscountCalculator(product, quantity, catalog_[product],
                                             offers_[product])
                  IN  IF discount_calculator.kind = "ValueError"
                      THEN discount_calculator
                      ELSE LET discount == calculate_discount(discount_calculator)
                           IN  IF discount.kind = "ValueError" THEN discount
                               ELSE IF discount.kind = "Discount"
                               THEN handle_offers_validates_entries(
                                        cart, add_discount(receipt, discount),
                                        offers_, catalog_, i + 1)
                               ELSE handle_offers_validates_entries(
                                        cart, receipt, offers_, catalog_, i + 1)

\* ShoppingCart.handle_offers from entry i of the merged map on: the receipt
\* with the discounts appended, or the ValueError that left the loop.
RECURSIVE handle_offers(_, _, _, _, _)
handle_offers(cart, receipt, offers_, catalog_, i) ==
    IF i > Len(cart._product_quantities) THEN receipt
    ELSE LET product  == cart._product_quantities[i].product
             quantity == cart._product_quantities[i].quantity
         IN  IF product \notin DOMAIN offers_
             THEN handle_offers(cart, receipt, offers_, catalog_, i + 1)
             ELSE LET offer == offers_[product]
                      unit_price == catalog_[product]
                      discount_calculator ==
                          DiscountCalculator(product, quantity, unit_price, offer)
                  IN  IF discount_calculator.kind = "ValueError"
                      THEN discount_calculator
                      ELSE LET discount == calculate_discount(discount_calculator)
                           IN  IF discount.kind = "ValueError" THEN discount
                               ELSE IF discount.kind = "Discount"
                               THEN handle_offers(cart, add_discount(receipt, discount),
                                                  offers_, catalog_, i + 1)
                               ELSE handle_offers(cart, receipt, offers_, catalog_, i + 1)

\* ------------------------------------------------------------------- teller

\* Teller._calculate_total_price: quantity * unit_price; the quantity is in
\* 1/QScale units and the price a multiple of QScale, so the division is exact.
_calculate_total_price(quantity, unit_price) == (quantity * unit_price) \div QScale

\* Teller._process_item.
_process_item(catalog_, product, quantity, receipt) ==
    LET unit_price == catalog_[product]
        total_price_ == _calculate_total_price(quantity, unit_price)
    IN  add_product(receipt, product, quantity, unit_price, total_price_)

\* Mutant of _add_cart_items_to_receipt: one line per entry of the merged map.
RECURSIVE _add_cart_items_merged(_, _, _, _)
_add_cart_items_merged(catalog_, cart, receipt, i) ==
    IF i > Len(cart._product_quantities) THEN receipt
    ELSE _add_cart_items_merged(
             catalog_, cart,
             _process_item(catalog_, cart._product_quantities[i].product,
                           cart._product_quantities[i].quantity, receipt),
             i + 1)

\* Teller._add_cart_items_to_receipt from history entry i on.
RECURSIVE _add_cart_items_to_receipt(_, _, _, _)
_add_cart_items_to_receipt(catalog_, cart, receipt, i) ==
    IF i > Len(cart._items) THEN receipt
    ELSE _add_cart_items_to_receipt(
             catalog_, cart,
             _process_item(catalog_, cart._items[i].product, cart._items[i].quantity,
                           receipt),
             i + 1)

\* Mutant of _apply_offers: the offers are applied by walking the registry,
\* so an offer of a product that is not in the cart is computed on quantity 0.
_apply_offers_over_registry(offers_, catalog_, cart, receipt) ==
    IF \E product \in DOMAIN offers_ :
           DiscountCalculator(product, DictGet(cart._product_quantities, product, 0),
                              catalog_[product], offers_[product]).kind = "ValueError"
    THEN ValueError(MsgInvalid)
    ELSE handle_offers(cart, receipt, offers_, catalog_, 1)

\* Teller._apply_offers.
_apply_offers(offers_, catalog_, cart, receipt) ==
    handle_offers(cart, receipt, offers_, catalog_, 1)

\* Teller.checks_out_articles_from: the receipt returned, or the ValueError raised.
checks_out_articles_from(offers_, catalog_, cart) ==
    _apply_offers(offers_, catalog_, cart,
                  _add_cart_items_to_receipt(catalog_, cart, Receipt, 1))

\* The catalog.unit_price calls of handle_offers from entry i of the merged map
\* on: one per offered product, up to and including the one whose discount
\* computation raises.
RECURSIVE handle_offers_lookups(_, _, _, _)
handle_offers_lookups(cart, offers_, catalog_, i) ==
    IF i > Len(cart._product_quantities) THEN <<>>
    ELSE LET product  == cart._product_quantities[i].product
             quantity == cart._product_quantities[i].quantity
         IN  IF product \notin DOMAIN offers_
             THEN handle_offers_lookups(cart, offers_, catalog_, i + 1)
             ELSE IF computed_discount(product, quantity, catalog_[product],
                              offers_[product]).kind = "ValueError"
             THEN <<product>>
             ELSE <<product>> \o handle_offers_lookups(cart, offers_, catalog_, i + 1)

\* The catalog.unit_price calls of one checkout, in order: one per cart entry
\* (_process_item), then those of handle_offers.
unit_price_calls(offers_, catalog_, cart) ==
    [i \in 1..Len(cart._items) |-> cart._items[i].product]
    \o handle_offers_lookups(cart, offers_, catalog_, 1)

\* Mutant of add_special_offer: the first offer registered for a product stays.
add_special_offer_first_wins(offers_, offer_type, product, argument) ==
    offers_ @@ (product :> Offer(offer_type, argument))

\* Teller.add_special_offer: self.offers[product] = Offer(offer_type, argument).
add_special_offer(offers_, offer_type, product, argument) ==
    (product :> Offer(offer_type, argument)) @@ offers_

\* ------------------------------------------------------------------- state

VARIABLES
    cart,       \* the ShoppingCart: _items (history) and _product_quantities (merged map)
    offers,     \* Teller.offers: product -> Offer, for the products that have one
    catalog,    \* the catalog's unit price of every product
    ret,        \* what the last call on the cart or teller returned or raised
    calc_args,  \* the arguments of a DiscountCalculator(...) call
    calc,       \* the DiscountCalculator constructed from them, None before
    calc_pc,    \* "new", "constructed", "raised" (by __init__) or "returned"
    calc_ret,   \* what calculate_discount returned or what was raised
    rcpt,       \* a Receipt driven directly through add_product / add_discount
    rcpt_ret,   \* what the last call on rcpt returned
    rcpt_calls, \* total_price() calls made on rcpt since the last add
    calls,      \* the calls made on a cart and teller under test, with their results
    returned,   \* the list a caller got from rcpt.items or rcpt.discounts, None before
    fmt         \* a format_line_with_whitespace call: its arguments and its result

tellerVars == <<cart, offers, catalog, ret>>

calcVars == <<calc_args, calc, calc_pc, calc_ret>>

rcptVars == <<rcpt, rcpt_ret, rcpt_calls>>

auxVars == <<calls, returned, fmt>>

vars == <<cart, offers, catalog, ret, calc_args, calc, calc_pc, calc_ret, rcpt, rcpt_ret,
         rcpt_calls, calls, returned, fmt>>

toothbrush == Product("toothbrush", EACH)

apples == Product("apples", KILO)

Products == {toothbrush, apples}

\* Catalogs of the checkout runs: one priced as in the tests, one holding a
\* negative price.
Catalogs ==
    { (toothbrush :> Cents(99)) @@ (apples :> Cents(199)),
      (toothbrush :> Cents(99)) @@ (apples :> Cents(-199)) }

\* Quantities passed to add_item_quantity: -1, 0.5, 1 and 3.
Quantities == {-Qty(1), HalfQty, Qty(1), Qty(3)}

\* Offers registered with the teller: the bundle price of the TWO_FOR_AMOUNT
\* offer is twice the toothbrush price and below twice the apples price.
TellerOffers ==
    { Offer(THREE_FOR_TWO, Cents(99)), Offer(TWO_FOR_AMOUNT, Cents(198)),
      Offer(FIVE_FOR_AMOUNT, Cents(1500)), Offer(TEN_PERCENT_DISCOUNT, 10),
      Offer(TEN_PERCENT_DISCOUNT, 101), Offer(UNKNOWN, 0) }

InitTeller ==
    /\ cart = [_items |-> <<>>, _product_quantities |-> <<>>]
    /\ offers = <<>>
    /\ catalog \in Catalogs
    /\ ret = None

IdleCalc ==
    /\ calc_args = None
    /\ calc = None
    /\ calc_pc = "idle"
    /\ calc_ret = None

IdleRcpt ==
    /\ rcpt = Receipt
    /\ rcpt_ret = None
    /\ rcpt_calls = 0

IdleLog == calls = <<>>

IdleView == returned = None

IdleFmt == fmt = None

\* ----------------------------------------------------- cart and teller steps

AddItem ==
    \E product \in Products :
        /\ Len(cart._items) < MaxItems
        /\ cart' = add_item(cart, product)
        /\ ret' = None
        /\ UNCHANGED <<offers, catalog>>

AddItemQuantity ==
    \E product \in Products, quantity \in Quantities :
        /\ Len(cart._items) < MaxItems
        /\ cart' = add_item_quantity(cart, product, quantity)
        /\ ret' = None
        /\ UNCHANGED <<offers, catalog>>

AddSpecialOffer ==
    \E offer \in TellerOffers, product \in Products :
        /\ offers' = add_special_offer(offers, offer.offer_type, product, offer.argument)
        /\ ret' = None
        /\ UNCHANGED <<cart, catalog>>

ChecksOutArticlesFrom ==
    /\ ret' = checks_out_articles_from(offers, catalog, cart)
    /\ UNCHANGED <<cart, offers, catalog>>

Init == InitTeller /\ IdleCalc /\ IdleRcpt /\ IdleLog /\ IdleView /\ IdleFmt

Next ==
    \/ AddItem /\ UNCHANGED <<calcVars, rcptVars, auxVars>>
    \/ AddItemQuantity /\ UNCHANGED <<calcVars, rcptVars, auxVars>>
    \/ AddSpecialOffer /\ UNCHANGED <<calcVars, rcptVars, auxVars>>
    \/ ChecksOutArticlesFrom /\ UNCHANGED <<calcVars, rcptVars, auxVars>>

Spec == Init /\ [][Next]_vars

\* ------------------------------------------------ the Discount Engine alone

\* Largest whole quantity handed to a DiscountCalculator under test.
MaxCalcQty == 16

\* Every multiple of 1/QScale from -1 to MaxCalcQty.
CalcQuantities == (-Qty(1)) .. Qty(MaxCalcQty)

CalcPrices == {Cents(-1), 0, Cents(99), Cents(100)}

\* Offer arguments: percentages inside, on and outside [0,100], and bundle
\* prices below, at and above group_size * unit_price.
CalcArguments == {-1, 0, 10, 100, 101, Cents(150), Cents(200), Cents(599)}

CalcOfferTypes == OfferType \cup {UNKNOWN}

InitCalc ==
    /\ calc_args \in [product : Products, quantity : CalcQuantities,
                      unit_price : CalcPrices,
                      offer : [offer_type : CalcOfferTypes, argument : CalcArguments]]
    /\ calc = None
    /\ calc_pc = "new"
    /\ calc_ret = None

IdleTeller ==
    /\ cart = [_items |-> <<>>, _product_quantities |-> <<>>]
    /\ offers = <<>>
    /\ catalog = (toothbrush :> Cents(99)) @@ (apples :> Cents(199))
    /\ ret = None

\* calculator = DiscountCalculator(product, quantity, unit_price, offer)
Construct ==
    /\ calc_pc = "new"
    /\ LET made == DiscountCalculator(calc_args.product, calc_args.quantity,
                                      calc_args.unit_price, calc_args.offer)
       IN  IF made.kind = "ValueError"
           THEN /\ calc_pc' = "raised"
                /\ calc_ret' = made
                /\ UNCHANGED calc
           ELSE /\ calc_pc' = "constructed"
                /\ calc' = made
                /\ UNCHANGED calc_ret
    /\ UNCHANGED calc_args

\* calculator.calculate_discount()
CalculateDiscount ==
    /\ calc_pc = "constructed"
    /\ calc_ret' = calculate_discount(calc)
    /\ calc_pc' = "returned"
    /\ UNCHANGED <<calc_args, calc>>

NextCalc ==
    \/ Construct /\ UNCHANGED <<tellerVars, rcptVars, auxVars>>
    \/ CalculateDiscount /\ UNCHANGED <<tellerVars, rcptVars, auxVars>>

InitCalcAlone == InitCalc /\ IdleTeller /\ IdleRcpt /\ IdleLog /\ IdleView /\ IdleFmt

SpecCalc == InitCalcAlone /\ [][NextCalc]_vars

\* ------------------------------------------------------- the Receipt alone

\* (quantity, price, total_price) of the add_product calls: a matching line,
\* the mismatching line of test_total_price_mismatch, a line ending on half a
\* cent, one ending on a quarter of a cent, and a negative line.
RcptLines ==
    { <<Qty(2), Cents(150), Cents(300)>>, <<Qty(2), Cents(250), Cents(600)>>,
      <<HalfQty, Cents(199), (HalfQty * Cents(199)) \div QScale>>,
      <<Qty(1), Cents(1) \div 4, Cents(1) \div 4>>,
      <<Qty(1), Cents(-100), Cents(-100)>> }

\* discount_amount of the add_discount calls.
RcptAmounts == {Cents(-150), -(Cents(1) \div 2), 0, Cents(1) \div 4}

Float(value) == [kind |-> "float", value |-> value]

RcptAddProduct ==
    \E product \in Products, line \in RcptLines :
        /\ Len(rcpt.items) + Len(rcpt.discounts) < MaxReceiptLen
        /\ rcpt' = add_product(rcpt, product, line[1], line[2], line[3])
        /\ rcpt_ret' = None
        /\ rcpt_calls' = 0

RcptAddDiscount ==
    \E amount \in RcptAmounts :
        /\ Len(rcpt.items) + Len(rcpt.discounts) < MaxReceiptLen
        /\ rcpt' = add_discount(rcpt, Discount(toothbrush, <<"Discount">>, amount))
        /\ rcpt_ret' = None
        /\ rcpt_calls' = 0

RcptTotalPrice ==
    /\ rcpt_calls < MaxTotalCalls
    /\ rcpt_ret' = Float(total_price(rcpt))
    /\ rcpt_calls' = rcpt_calls + 1
    /\ UNCHANGED rcpt

NextRcpt ==
    \/ RcptAddProduct /\ UNCHANGED <<tellerVars, calcVars, auxVars>>
    \/ RcptAddDiscount /\ UNCHANGED <<tellerVars, calcVars, auxVars>>
    \/ RcptTotalPrice /\ UNCHANGED <<tellerVars, calcVars, auxVars>>

InitRcptAlone == IdleTeller /\ IdleCalc /\ IdleRcpt /\ IdleLog /\ IdleView /\ IdleFmt

SpecRcpt == InitRcptAlone /\ [][NextRcpt]_vars

\* ----------------------------------------------------------------- claims

\* The products of the cart's additions.
CartProducts == {cart._items[i].product : i \in 1..Len(cart._items)}

\* The sum of the quantities of all additions of a product.
RECURSIVE HistorySum(_, _)
HistorySum(history, product) ==
    IF history = <<>> THEN 0
    ELSE (IF Head(history).product = product THEN Head(history).quantity ELSE 0)
         + HistorySum(Tail(history), product)

\* The Discount Engine's contract: compute(product, total_quantity, unit_price, offer).
Compute(product, total_quantity, unit_price, offer) ==
    LET calculator == DiscountCalculator(product, total_quantity, unit_price, offer)
    IN  IF calculator.kind = "ValueError" THEN calculator
        ELSE calculate_discount(calculator)

\* The discounts of a receipt that belong to a product.
DiscountsOf(receipt, product) ==
    SelectSeq(receipt.discounts, LAMBDA d : d.product = product)

IsGroupOffer(offer_type) == offer_type \in {THREE_FOR_TWO, TWO_FOR_AMOUNT, FIVE_FOR_AMOUNT}

GroupSize(offer_type) ==
    CASE offer_type = THREE_FOR_TWO -> 3
      [] offer_type = TWO_FOR_AMOUNT -> 2
      [] offer_type = FIVE_FOR_AMOUNT -> 5

\* C1: a receipt returned by checkout has exactly one line per cart addition,
\* in the order of the additions and never merged: line i has the product and
\* the quantity of the i-th addition, the catalog's unit price of that product
\* and total_price = quantity x unit price.
C1_OneLinePerAddition ==
    ret.kind = "Receipt" =>
        /\ Len(ret.items) = Len(cart._items)
        /\ \A i \in 1..Len(cart._items) :
               /\ ret.items[i].product = cart._items[i].product
               /\ ret.items[i].quantity = cart._items[i].quantity
               /\ ret.items[i].price = catalog[cart._items[i].product]
               /\ ret.items[i].total_price * QScale
                      = cart._items[i].quantity * catalog[cart._items[i].product]

\* A checked-out cart of three additions, the first and the last of the same
\* product with different quantities, one of them fractional.
C1_Witness ==
    /\ ret.kind = "Receipt"
    /\ Len(cart._items) = 3
    /\ cart._items[1].product = cart._items[3].product
    /\ cart._items[2].product # cart._items[1].product
    /\ cart._items[1].quantity = HalfQty
    /\ cart._items[3].quantity = Qty(3)
    /\ Len(ret.items) = 3

\* C2: discounting at checkout operates on the merged quantity: the discounts
\* a returned receipt holds for a product are what the Discount Engine yields
\* for the sum of the quantities of all additions of that product, the
\* catalog's unit price and the product's offer (nothing when the product has
\* no offer), whatever the split of that sum over the additions.
C2_DiscountOnMergedQuantity ==
    ret.kind = "Receipt" =>
        \A product \in Products :
            DiscountsOf(ret, product) =
                IF product \in CartProducts /\ product \in DOMAIN offers
                THEN LET discount == Compute(product, HistorySum(cart._items, product),
                                             catalog[product], offers[product])
                     IN  IF discount.kind = "Discount" THEN <<discount>> ELSE <<>>
                ELSE <<>>

\* Three additions of 1 toothbrush under THREE_FOR_TWO: the receipt holds the
\* discount of one addition of 3, one unit price off.
C2_Witness ==
    /\ ret.kind = "Receipt"
    /\ Len(cart._items) = 3
    /\ \A i \in 1..3 : cart._items[i] = ProductQuantity(toothbrush, Qty(1))
    /\ toothbrush \in DOMAIN offers
    /\ offers[toothbrush].offer_type = THREE_FOR_TWO
    /\ Len(ret.discounts) = 1
    /\ ret.discounts[1].discount_amount = -catalog[toothbrush]

\* The sum of a sequence of integers.
RECURSIVE SeqSum(_)
SeqSum(seq) == IF seq = <<>> THEN 0 ELSE Head(seq) + SeqSum(Tail(seq))

\* The exact sum of the item totals and the discount amounts of a receipt.
ExactTotal(receipt) ==
    SeqSum([i \in 1..Len(receipt.items) |-> receipt.items[i].total_price])
    + SeqSum([i \in 1..Len(receipt.discounts) |-> receipt.discounts[i].discount_amount])

\* C3: every call of Receipt.total_price() returns the sum of the item totals
\* plus the sum of the discount amounts of the receipt's current contents,
\* rounded to two decimals (a whole number of cents, at most half a cent from
\* the exact sum); the call leaves the receipt unchanged, and a call that
\* follows another with no add in between returns the same value.
C3_TotalPrice ==
    [][ rcpt_ret'.kind = "float" =>
            /\ rcpt' = rcpt
            /\ rcpt_ret'.value % MoneyScale = 0
            /\ 2 * (rcpt_ret'.value - ExactTotal(rcpt)) <= MoneyScale
            /\ 2 * (ExactTotal(rcpt) - rcpt_ret'.value) <= MoneyScale
            /\ (rcpt_ret.kind = "float" => rcpt_ret'.value = rcpt_ret.value) ]_vars

\* A total returned by the second call in a row, for a receipt holding items
\* and a discount whose exact sum is not a whole number of cents.
C3_Witness ==
    /\ rcpt_ret.kind = "float"
    /\ rcpt_calls = 2
    /\ Len(rcpt.items) >= 1
    /\ Len(rcpt.discounts) >= 1
    /\ rcpt.discounts[1].discount_amount < 0
    /\ ExactTotal(rcpt) % MoneyScale # 0
    /\ rcpt_ret.value # 0

\* C4: for a group offer and a whole-number quantity >= group_size the
\* discount amount is -(quantity x unit_price - (groups x bundle_price +
\* remainder x unit_price)), groups = floor(quantity / group_size), remainder
\* = quantity mod group_size; (group_size, bundle_price) is (3, 2 x
\* unit_price) for THREE_FOR_TWO whatever the offer's argument, (2, argument)
\* for TWO_FOR_AMOUNT and (5, argument) for FIVE_FOR_AMOUNT.
C4_GroupDiscountAmount ==
    ( /\ calc_pc = "returned"
      /\ IsGroupOffer(calc_args.offer.offer_type)
      /\ calc_args.quantity % QScale = 0
      /\ calc_args.quantity >= Qty(GroupSize(calc_args.offer.offer_type)) ) =>
        LET total_quantity == calc_args.quantity \div QScale
            unit_price     == calc_args.unit_price
            group_size     == GroupSize(calc_args.offer.offer_type)
            bundle_price   == IF calc_args.offer.offer_type = THREE_FOR_TWO
                              THEN 2 * unit_price ELSE calc_args.offer.argument
            groups         == total_quantity \div group_size
            remainder      == total_quantity % group_size
        IN  /\ calc_ret.kind = "Discount"
            /\ calc_ret.discount_amount =
                   -(total_quantity * unit_price
                     - (groups * bundle_price + remainder * unit_price))

\* FIVE_FOR_AMOUNT on 16 units: three groups and a remainder of one; and
\* THREE_FOR_TWO with an argument that is not twice the unit price.
C4_Witness ==
    /\ calc_pc = "returned"
    /\ calc_args.offer = Offer(FIVE_FOR_AMOUNT, Cents(150))
    /\ calc_args.quantity = Qty(16)
    /\ calc_args.unit_price = Cents(99)
    /\ calc_ret.kind = "Discount"
    /\ calc_ret.discount_amount = -(16 * Cents(99) - (3 * Cents(150) + Cents(99)))

\* C5: for a group offer a discount record is produced if and only if the
\* product's total quantity is at least the group size: a returned receipt
\* holds a discount of a cart product under a group offer exactly when the
\* sum of the product's additions reaches the group size (then exactly one,
\* also when its amount is 0), and none below it.
C5_GroupDiscountIffGroupSize ==
    ret.kind = "Receipt" =>
        \A product \in CartProducts :
            (product \in DOMAIN offers /\ IsGroupOffer(offers[product].offer_type)) =>
                LET reached == HistorySum(cart._items, product)
                                   >= Qty(GroupSize(offers[product].offer_type))
                IN  /\ reached => Len(DiscountsOf(ret, product)) = 1
                    /\ ~reached => Len(DiscountsOf(ret, product)) = 0

\* A receipt holding a discount of amount 0 (two toothbrushes, two for twice
\* the unit price) while another product stays below its group size and has none.
C5_Witness ==
    /\ ret.kind = "Receipt"
    /\ toothbrush \in DOMAIN offers /\ apples \in DOMAIN offers
    /\ offers[toothbrush].offer_type = TWO_FOR_AMOUNT
    /\ offers[apples].offer_type = FIVE_FOR_AMOUNT
    /\ HistorySum(cart._items, toothbrush) = Qty(2)
    /\ HistorySum(cart._items, apples) = HalfQty
    /\ Len(ret.discounts) = 1
    /\ ret.discounts[1].product = toothbrush
    /\ ret.discounts[1].discount_amount = 0

\* C6: every Discount the Discount Engine produces has discount_amount <= 0,
\* and a group offer whose bundle price is at least group_size x unit_price
\* yields a discount of amount zero, never a positive one.
C6_DiscountNeverPositive ==
    (calc_pc = "returned" /\ calc_ret.kind = "Discount") =>
        /\ calc_ret.discount_amount <= 0
        /\ ( /\ IsGroupOffer(calc_args.offer.offer_type)
             /\ calc_args.offer.offer_type # THREE_FOR_TWO
             /\ calc_args.offer.argument
                    >= GroupSize(calc_args.offer.offer_type) * calc_args.unit_price )
           => calc_ret.discount_amount = 0

\* C7: for TEN_PERCENT_DISCOUNT with an argument in [0,100] the discount
\* amount is -(total_quantity x unit_price x argument / 100) on the quantity
\* as given, fractional quantities included.
C7_PercentOfFullQuantity ==
    ( /\ calc_pc = "returned"
      /\ calc_args.offer.offer_type = TEN_PERCENT_DISCOUNT
      /\ 0 <= calc_args.offer.argument /\ calc_args.offer.argument <= 100 ) =>
        /\ calc_ret.kind = "Discount"
        /\ calc_ret.discount_amount * QScale * 100 =
               -(calc_args.quantity * calc_args.unit_price * calc_args.offer.argument)

\* C8: with total_quantity <= 0 or unit_price < 0 the computation fails with
\* the invalid-argument error for every offer type, an unknown one included:
\* the constructor raises, no calculator exists to dispatch on and no Discount
\* is produced.
C8_InvalidInputAlwaysFails ==
    (calc_pc # "new" /\ (calc_args.quantity <= 0 \/ calc_args.unit_price < 0)) =>
        /\ calc_pc = "raised"
        /\ calc_ret = ValueError(MsgInvalid)
        /\ calc = None

\* A zero quantity under an offer type that has no calculation rule.
C8_Witness ==
    /\ calc_pc = "raised"
    /\ calc_args.quantity = 0
    /\ calc_args.unit_price > 0
    /\ calc_args.offer.offer_type = UNKNOWN
    /\ calc_ret = ValueError(MsgInvalid)

\* C9: for a valid quantity and unit price, TEN_PERCENT_DISCOUNT fails with
\* the invalid-argument error of the percentage exactly when its argument is
\* outside [0,100]; an argument inside, 0 and 100 included, yields a Discount.
C9_PercentageRange ==
    (calc_pc = "returned" /\ calc_args.offer.offer_type = TEN_PERCENT_DISCOUNT) =>
        IF calc_args.offer.argument < 0 \/ calc_args.offer.argument > 100
        THEN calc_ret = ValueError(MsgPercent)
        ELSE calc_ret.kind = "Discount"

\* An argument just above 100 on a valid quantity and price.
C9_Witness ==
    /\ calc_pc = "returned"
    /\ calc_args.offer = Offer(TEN_PERCENT_DISCOUNT, 101)
    /\ calc_args.quantity = Qty(1)
    /\ calc_args.unit_price = Cents(99)
    /\ calc_ret = ValueError(MsgPercent)

\* The cart products that have an offer.
OfferedCartProducts == CartProducts \cap DOMAIN offers

C11_InvalidInputAbortsOneProductOnly ==
    ( /\ ret # None
      /\ \A product \in OfferedCartProducts : offers[product].offer_type \in OfferType ) =>
        /\ ret.kind = "Receipt"
        /\ Len(ret.items) = Len(cart._items)
        /\ \A product \in OfferedCartProducts :
               LET discount == Compute(product, HistorySum(cart._items, product),
                                       catalog[product], offers[product])
               IN  discount.kind = "Discount" => DiscountsOf(ret, product) = <<discount>>

\* The index of the first addition of a product.
FirstIndex(history, product) ==
    CHOOSE i \in 1..Len(history) :
        /\ history[i].product = product
        /\ \A k \in 1..(i - 1) : history[k].product # product

\* C13: a receipt returned by checkout holds at most one discount per product,
\* and every discount on it belongs to a product that is in the cart and has a
\* registered offer.
C13_AtMostOneDiscountPerProduct ==
    ret.kind = "Receipt" =>
        /\ \A product \in Products : Len(DiscountsOf(ret, product)) <= 1
        /\ \A i \in 1..Len(ret.discounts) :
               /\ ret.discounts[i].product \in CartProducts
               /\ ret.discounts[i].product \in DOMAIN offers

\* Toothbrushes added twice earn one discount, while the apples in the cart
\* have no offer.
C13_Witness ==
    /\ ret.kind = "Receipt"
    /\ Len(cart._items) = 3
    /\ cart._items[1].product = toothbrush
    /\ cart._items[2].product = apples
    /\ cart._items[3].product = toothbrush
    /\ DOMAIN offers = {toothbrush}
    /\ Len(ret.discounts) = 1
    /\ ret.discounts[1].product = toothbrush

\* C14: the discounts of a returned receipt are in the order in which their
\* products first occur in the cart's additions, whatever was added again later.
C14_DiscountsInFirstOccurrenceOrder ==
    ret.kind = "Receipt" =>
        \A i, j \in 1..Len(ret.discounts) :
            i < j => FirstIndex(cart._items, ret.discounts[i].product)
                         < FirstIndex(cart._items, ret.discounts[j].product)

\* Apples, toothbrush, apples again: the discount of the apples comes first.
C14_Witness ==
    /\ ret.kind = "Receipt"
    /\ Len(cart._items) = 3
    /\ cart._items[1].product = apples
    /\ cart._items[2].product = toothbrush
    /\ cart._items[3].product = apples
    /\ Len(ret.discounts) = 2
    /\ ret.discounts[1].product = apples
    /\ ret.discounts[2].product = toothbrush

\* --------------------------------------- a cart and a teller, calls logged

\* Most calls made on the cart and the teller of a logged run.
MaxCalls == 4

\* Quantities of the logged add_item_quantity calls: -1, 0, 0.5 and 3.
LogQuantities == {-Qty(1), 0, HalfQty, Qty(3)}

\* Offers of the logged add_special_offer calls.
LogOffers == {Offer(THREE_FOR_TWO, Cents(99)), Offer(TEN_PERCENT_DISCOUNT, 10),
              Offer(UNKNOWN, 0)}

LogAddItem ==
    \E product \in Products :
        /\ Len(calls) < MaxCalls
        /\ cart' = add_item(cart, product)
        /\ ret' = None
        /\ calls' = Append(calls, [op |-> "add_item", product |-> product,
                                   result |-> None])
        /\ UNCHANGED <<offers, catalog>>

LogAddItemQuantity ==
    \E product \in Products, quantity \in LogQuantities :
        /\ Len(calls) < MaxCalls
        /\ cart' = add_item_quantity(cart, product, quantity)
        /\ ret' = None
        /\ calls' = Append(calls, [op |-> "add_item_quantity", product |-> product,
                                   quantity |-> quantity, result |-> None])
        /\ UNCHANGED <<offers, catalog>>

LogAddSpecialOffer ==
    \E offer \in LogOffers, product \in Products :
        /\ Len(calls) < MaxCalls
        /\ offers' = add_special_offer(offers, offer.offer_type, product, offer.argument)
        /\ ret' = None
        /\ calls' = Append(calls, [op |-> "add_special_offer",
                                   offer_type |-> offer.offer_type, product |-> product,
                                   argument |-> offer.argument, result |-> None])
        /\ UNCHANGED <<cart, catalog>>

\* Mutant of the checkout step: checkout consumes the cart.
LogChecksOut_consumes_cart ==
    /\ Len(calls) < MaxCalls
    /\ ret' = checks_out_articles_from(offers, catalog, cart)
    /\ calls' = Append(calls, [op |-> "checks_out_articles_from", result |-> ret',
                               lookups |-> unit_price_calls(offers, catalog, cart)])
    /\ cart' = [_items |-> <<>>, _product_quantities |-> <<>>]
    /\ UNCHANGED <<offers, catalog>>

LogChecksOut ==
    /\ Len(calls) < MaxCalls
    /\ ret' = checks_out_articles_from(offers, catalog, cart)
    /\ calls' = Append(calls, [op |-> "checks_out_articles_from", result |-> ret',
                               lookups |-> unit_price_calls(offers, catalog, cart)])
    /\ UNCHANGED <<cart, offers, catalog>>

NextLog ==
    \/ LogAddItem /\ UNCHANGED <<calcVars, rcptVars, returned, fmt>>
    \/ LogAddItemQuantity /\ UNCHANGED <<calcVars, rcptVars, returned, fmt>>
    \/ LogAddSpecialOffer /\ UNCHANGED <<calcVars, rcptVars, returned, fmt>>
    \/ LogChecksOut /\ UNCHANGED <<calcVars, rcptVars, returned, fmt>>

InitLogAlone == IdleTeller /\ IdleCalc /\ IdleRcpt /\ IdleLog /\ IdleView /\ IdleFmt

SpecLog == InitLogAlone /\ [][NextLog]_vars

\* The logged calls that add to the cart, in call order.
AddCalls == SelectSeq(calls, LAMBDA c : c.op \in {"add_item", "add_item_quantity"})

\* The quantity a logged add call adds: 1 for add_item.
AddedQuantity(call) == IF call.op = "add_item" THEN Qty(1) ELSE call.quantity

\* The sum of the quantities the logged add calls add of a product.
RECURSIVE AddedSum(_, _)
AddedSum(adds, product) ==
    IF adds = <<>> THEN 0
    ELSE (IF Head(adds).product = product THEN AddedQuantity(Head(adds)) ELSE 0)
         + AddedSum(Tail(adds), product)

LastCallIsCheckout ==
    calls # <<>> /\ calls[Len(calls)].op = "checks_out_articles_from"

\* C12: add_item_quantity never rejects a quantity, and with non-negative
\* prices and valid offers checkout fails, with the invalid-quantity error, if
\* and only if some cart product that has an offer has a merged quantity <= 0;
\* otherwise it returns a receipt.
C12_QuantityValidatedOnMergedQuantity ==
    /\ \A i \in 1..Len(calls) :
           calls[i].op \in {"add_item", "add_item_quantity"} => calls[i].result = None
    /\ Len(cart._items) = Len(AddCalls)
    /\ ( /\ LastCallIsCheckout
         /\ \A product \in Products : catalog[product] >= 0
         /\ \A product \in DOMAIN offers :
                /\ offers[product].offer_type \in OfferType
                /\ offers[product].offer_type = TEN_PERCENT_DISCOUNT =>
                       (0 <= offers[product].argument /\ offers[product].argument <= 100) )
       => IF \E product \in OfferedCartProducts : AddedSum(AddCalls, product) <= 0
          THEN ret = ValueError(MsgInvalid)
          ELSE ret.kind = "Receipt"

\* A negative addition of an offered product whose merged quantity is
\* positive: the additions were accepted and checkout returns a receipt.
C12_Witness ==
    /\ LastCallIsCheckout
    /\ ret.kind = "Receipt"
    /\ Len(cart._items) = 2
    /\ cart._items[1] = ProductQuantity(toothbrush, -Qty(1))
    /\ cart._items[2] = ProductQuantity(toothbrush, Qty(3))
    /\ DOMAIN offers = {toothbrush}

\* The most recent logged add_special_offer call for a product, 0 if none.
RECURSIVE LastOfferCall(_, _)
LastOfferCall(i, product) ==
    IF i = 0 THEN 0
    ELSE IF calls[i].op = "add_special_offer" /\ calls[i].product = product THEN i
    ELSE LastOfferCall(i - 1, product)

\* C15: the history holds one entry per add call, in call order, add_item
\* adding quantity 1; the merged map has one key per distinct product of the
\* history, and its value is the sum of that product's additions.
C15_CartInvariant ==
    /\ Len(cart._items) = Len(AddCalls)
    /\ \A i \in 1..Len(AddCalls) :
           cart._items[i] = ProductQuantity(AddCalls[i].product, AddedQuantity(AddCalls[i]))
    /\ {cart._product_quantities[i].product : i \in 1..Len(cart._product_quantities)}
           = {cart._items[i].product : i \in 1..Len(cart._items)}
    /\ \A i, j \in 1..Len(cart._product_quantities) :
           cart._product_quantities[i].product = cart._product_quantities[j].product => i = j
    /\ \A i \in 1..Len(cart._product_quantities) :
           cart._product_quantities[i].quantity
               = AddedSum(AddCalls, cart._product_quantities[i].product)

\* The same product added three times, by add_item and by add_item_quantity,
\* with another product in between: four entries, two keys.
C15_Witness ==
    /\ Len(cart._items) = 4
    /\ cart._items[1] = ProductQuantity(toothbrush, Qty(1))
    /\ cart._items[2] = ProductQuantity(apples, HalfQty)
    /\ cart._items[3] = ProductQuantity(toothbrush, -Qty(1))
    /\ cart._items[4] = ProductQuantity(toothbrush, Qty(3))
    /\ Len(cart._product_quantities) = 2
    /\ DictGet(cart._product_quantities, toothbrush, 0) = Qty(3)

\* C16: add_special_offer returns nothing and raises nothing; the registry
\* holds, for each product, exactly the offer of the most recent call for it,
\* and no offer for a product no call named.
C16_LastOfferWins ==
    /\ \A i \in 1..Len(calls) :
           calls[i].op = "add_special_offer" => calls[i].result = None
    /\ DOMAIN offers = {product \in Products : LastOfferCall(Len(calls), product) # 0}
    /\ \A product \in DOMAIN offers :
           LET call == calls[LastOfferCall(Len(calls), product)]
           IN  offers[product] = Offer(call.offer_type, call.argument)

\* Two offers registered for toothbrush, one for apples in between: the
\* registry holds the second offer for toothbrush, and the offer for apples
\* is still the one registered.
C16_Witness ==
    /\ Len(calls) = 3
    /\ calls[1].op = "add_special_offer" /\ calls[1].product = toothbrush
    /\ calls[1].offer_type = THREE_FOR_TWO
    /\ calls[2].op = "add_special_offer" /\ calls[2].product = apples
    /\ calls[3].op = "add_special_offer" /\ calls[3].product = toothbrush
    /\ calls[3].offer_type = TEN_PERCENT_DISCOUNT
    /\ offers[toothbrush] = Offer(TEN_PERCENT_DISCOUNT, 10)
    /\ offers[apples] = Offer(calls[2].offer_type, calls[2].argument)

\* C18: checking out a cart nothing was added to returns a receipt with no
\* items and no discounts whose total is 0, whatever the registry holds, and
\* looks no price up.
C18_EmptyCartCheckout ==
    (LastCallIsCheckout /\ cart._items = <<>>) =>
        /\ ret = Receipt
        /\ total_price(ret) = 0
        /\ calls[Len(calls)].lookups = <<>>

\* An empty cart checked out by a teller with offers registered.
C18_Witness ==
    /\ LastCallIsCheckout
    /\ cart._items = <<>>
    /\ DOMAIN offers = Products
    /\ ret = Receipt

MaxViewOps == 2

\* discount_amount of the discounts added and of the caller's assignments.
ViewAmounts == {Cents(-150), 0}

\* list[:] : a new list holding the same objects, here the positions of the
\* objects in the receipt's own list (0 is an object the caller made).
ShallowCopy(list) == [i \in 1..Len(list) |-> i]

ViewAddProduct ==
    /\ Len(rcpt.items) + Len(rcpt.discounts) < MaxReceiptLen
    /\ rcpt' = add_product(rcpt, toothbrush, Qty(2), Cents(150), Cents(300))
    /\ rcpt_ret' = None
    /\ UNCHANGED <<rcpt_calls, returned>>

ViewAddDiscount ==
    \E amount \in ViewAmounts :
        /\ Len(rcpt.items) + Len(rcpt.discounts) < MaxReceiptLen
        /\ rcpt' = add_discount(rcpt, Discount(toothbrush, <<"Discount">>, amount))
        /\ rcpt_ret' = None
        /\ UNCHANGED <<rcpt_calls, returned>>

\* receipt.items
ViewItems ==
    /\ returned' = [of |-> "items", refs |-> ShallowCopy(rcpt.items), ops |-> 0]
    /\ UNCHANGED <<rcpt, rcpt_ret, rcpt_calls>>

\* receipt.discounts
ViewDiscounts ==
    /\ returned' = [of |-> "discounts", refs |-> ShallowCopy(rcpt.discounts), ops |-> 0]
    /\ UNCHANGED <<rcpt, rcpt_ret, rcpt_calls>>

\* receipt.total_price()
ViewTotalPrice ==
    /\ rcpt_ret' = Float(total_price(rcpt))
    /\ UNCHANGED <<rcpt, rcpt_calls, returned>>

\* returned.append(x), x an object of the caller
ViewAppend ==
    /\ returned # None
    /\ returned.ops < MaxViewOps
    /\ returned' = [returned EXCEPT !.refs = Append(@, 0), !.ops = @ + 1]
    /\ UNCHANGED <<rcpt, rcpt_ret, rcpt_calls>>

\* del returned[k]
ViewRemove ==
    /\ returned # None
    /\ returned.ops < MaxViewOps
    /\ \E k \in 1..Len(returned.refs) :
           returned' = [returned EXCEPT
                            !.refs = SubSeq(@, 1, k - 1) \o SubSeq(@, k + 1, Len(@)),
                            !.ops = @ + 1]
    /\ UNCHANGED <<rcpt, rcpt_ret, rcpt_calls>>

\* returned[k] = x, x an object of the caller
ViewReplace ==
    /\ returned # None
    /\ returned.ops < MaxViewOps
    /\ \E k \in 1..Len(returned.refs) :
           returned' = [returned EXCEPT !.refs[k] = 0, !.ops = @ + 1]
    /\ UNCHANGED <<rcpt, rcpt_ret, rcpt_calls>>

\* returned[k].discount_amount = amount : Discount is a plain dataclass, and
\* the object is the one the receipt holds unless the caller put it there.
ViewSetDiscountAmount ==
    /\ returned # None
    /\ returned.of = "discounts"
    /\ returned.ops < MaxViewOps
    /\ \E k \in 1..Len(returned.refs), amount \in ViewAmounts :
           /\ returned' = [returned EXCEPT !.ops = @ + 1]
           /\ rcpt' = IF returned.refs[k] = 0 THEN rcpt
                      ELSE [rcpt EXCEPT !.discounts[returned.refs[k]].discount_amount = amount]
    /\ UNCHANGED <<rcpt_ret, rcpt_calls>>

NextView ==
    \/ ViewAddProduct /\ UNCHANGED <<tellerVars, calcVars, calls, fmt>>
    \/ ViewAddDiscount /\ UNCHANGED <<tellerVars, calcVars, calls, fmt>>
    \/ ViewItems /\ UNCHANGED <<tellerVars, calcVars, calls, fmt>>
    \/ ViewDiscounts /\ UNCHANGED <<tellerVars, calcVars, calls, fmt>>
    \/ ViewTotalPrice /\ UNCHANGED <<tellerVars, calcVars, calls, fmt>>
    \/ ViewAppend /\ UNCHANGED <<tellerVars, calcVars, calls, fmt>>
    \/ ViewRemove /\ UNCHANGED <<tellerVars, calcVars, calls, fmt>>
    \/ ViewReplace /\ UNCHANGED <<tellerVars, calcVars, calls, fmt>>
    \/ ViewSetDiscountAmount /\ UNCHANGED <<tellerVars, calcVars, calls, fmt>>

InitViewAlone == IdleTeller /\ IdleCalc /\ IdleRcpt /\ IdleLog /\ IdleView /\ IdleFmt

SpecView == InitViewAlone /\ [][NextView]_vars

\* C17: nothing a caller does through a list that items or discounts
\* returned (append, remove, replace, assign a returned Discount's
\* discount_amount) changes what items, discounts and total_price() return
\* afterwards.
C17_ReturnedListsAreDefensiveCopies ==
    [][ (returned # None /\ returned' # None /\ returned'.ops = returned.ops + 1)
        => /\ rcpt'.items = rcpt.items
           /\ rcpt'.discounts = rcpt.discounts
           /\ total_price(rcpt') = total_price(rcpt) ]_vars

\* ------------------------------------------------- the printer's line format

\* Longest name, longest value and widest receipt formatted.
MaxNameLen == 4

MaxValueLen == 3

MaxColumns == 6

\* The strings of at most n characters over an alphabet, as sequences of
\* one-character strings.
StringsUpTo(alphabet, n) == UNION {[1..k -> alphabet] : k \in 0..n}

\* s[:n] : the first n characters, all but the last -n when n is negative.
SliceTo(s, n) ==
    IF n >= 0 THEN SubSeq(s, 1, IF n < Len(s) THEN n ELSE Len(s))
    ELSE SubSeq(s, 1, IF Len(s) + n > 0 THEN Len(s) + n ELSE 0)

\* c * n : n times the character, the empty string when n <= 0.
Repeat(c, n) == [i \in 1..n |-> c]

\* Mutant of format_line_with_whitespace: the truncated name leaves no room
\* for the three dots.
format_line_without_room_for_dots(columns, name, value) ==
    LET total_length == Len(name) + Len(value)
    IN  IF total_length >= columns
        THEN SliceTo(name, columns - Len(value)) \o <<".", ".", ".">> \o value \o <<"\n">>
        ELSE LET whitespace_size == columns - total_length
             IN  name \o Repeat(" ", whitespace_size) \o value \o <<"\n">>

\* ReceiptPrinter.format_line_with_whitespace, columns being self.columns.
format_line_with_whitespace(columns, name, value) ==
    LET total_length == Len(name) + Len(value)
    IN  IF total_length >= columns
        THEN SliceTo(name, columns - Len(value) - 3) \o <<".", ".", ".">> \o value \o <<"\n">>
        ELSE LET whitespace_size == columns - total_length
             IN  name \o Repeat(" ", whitespace_size) \o value \o <<"\n">>

\* The arguments of one call: ReceiptPrinter(columns) and name, value.
FormatArguments ==
    [kind : {"arguments"}, columns : 0..MaxColumns,
     name : StringsUpTo({"a", "b"}, MaxNameLen),
     value : StringsUpTo({"1", "."}, MaxValueLen)]

\* ReceiptPrinter(columns).format_line_with_whitespace(name, value)
FormatLineWithWhitespace ==
    /\ fmt.kind = "arguments"
    /\ fmt' = [kind |-> "line", columns |-> fmt.columns, name |-> fmt.name,
               value |-> fmt.value,
               line |-> format_line_with_whitespace(fmt.columns, fmt.name, fmt.value)]

NextFmt ==
    FormatLineWithWhitespace /\ UNCHANGED <<tellerVars, calcVars, rcptVars, calls, returned>>

InitFmtAlone ==
    IdleTeller /\ IdleCalc /\ IdleRcpt /\ IdleLog /\ IdleView /\ fmt \in FormatArguments

SpecFmt == InitFmtAlone /\ [][NextFmt]_vars

\* The line is the name, spaces, the value and a newline.
IsPadded(line, name, value) ==
    \E n \in 0..Len(line) : line = name \o Repeat(" ", n) \o value \o <<"\n">>

\* The line is the first k characters of the name, three dots, the value and
\* a newline.
IsTruncated(line, name, value, k) ==
    line = SubSeq(name, 1, k) \o <<".", ".", ".">> \o value \o <<"\n">>

\* The line is `columns` characters and a newline, and the characters before
\* the newline end with the whole value.
IsFixedWidth(line, columns, value) ==
    /\ Len(line) = columns + 1
    /\ line[Len(line)] = "\n"
    /\ \A i \in 1..columns : line[i] # "\n"
    /\ Len(value) <= columns
    /\ SubSeq(line, columns - Len(value) + 1, columns) = value

\* C19 as stated: for every name, value and column count the line is
\* `columns` characters and a newline and ends with the whole value; it is
\* the padded name, or the truncated name followed by three dots.
C19_FixedWidthForEveryInput ==
    fmt.kind = "line" =>
        /\ IsFixedWidth(fmt.line, fmt.columns, fmt.value)
        /\ \/ IsPadded(fmt.line, fmt.name, fmt.value)
           \/ \E k \in 0..Len(fmt.name) : IsTruncated(fmt.line, fmt.name, fmt.value, k)

\* C19 amended: when name and value together are shorter than `columns`, or
\* the value and three dots fit in `columns`, the line is `columns`
\* characters and a newline and ends with the whole value: the name padded
\* with spaces when len(name) + len(value) < columns, otherwise the first
\* columns - len(value) - 3 characters of the name followed by three dots.
C19_FixedWidthWhenValueAndDotsFit ==
    (fmt.kind = "line"
     /\ (Len(fmt.name) + Len(fmt.value) < fmt.columns \/ Len(fmt.value) + 3 <= fmt.columns))
    => /\ IsFixedWidth(fmt.line, fmt.columns, fmt.value)
       /\ IF Len(fmt.name) + Len(fmt.value) < fmt.columns
          THEN IsPadded(fmt.line, fmt.name, fmt.value)
          ELSE IsTruncated(fmt.line, fmt.name, fmt.value,
                           fmt.columns - Len(fmt.value) - 3)

\* A name cut to its first character: name and value are longer than the
\* receipt is wide, and the value and the dots fit.
C19_Witness ==
    /\ fmt.kind = "line"
    /\ fmt.columns = 6
    /\ fmt.name = <<"a", "b", "b", "a">>
    /\ fmt.value = <<"1", ".">>
    /\ fmt.line = <<"a", ".", ".", ".", "1", ".", "\n">>

\* floor(q) of a quantity q > 0, as a quantity.
FloorQty(quantity) == Qty(quantity \div QScale)

\* C21: the Discount Engine computes on the integer part of the quantity: for
\* every offer type and every quantity q > 0 the calculator holds floor(q);
\* from q >= 1 on, what the engine yields for q (a discount, none, or the
\* error of the offer) is what it yields for floor(q); a quantity in (0,1)
\* passes validation and is discounted as quantity 0: a percent offer emits a
\* discount of amount 0, a group offer emits none.
C21_ComputesOnIntegerPart ==
    /\ (calc_pc = "constructed" /\ calc_args.quantity > 0) =>
           calc.quantity * QScale = FloorQty(calc_args.quantity)
    /\ (calc_pc \in {"raised", "returned"} /\ calc_args.quantity >= Qty(1)) =>
           calc_ret = computed_discount(calc_args.product, FloorQty(calc_args.quantity),
                                        calc_args.unit_price, calc_args.offer)
    /\ ( /\ calc_pc \in {"raised", "returned"}
         /\ 0 < calc_args.quantity /\ calc_args.quantity < Qty(1)
         /\ calc_args.unit_price >= 0 ) =>
           /\ calc_pc = "returned"
           /\ IsGroupOffer(calc_args.offer.offer_type) => calc_ret = None
           /\ ( /\ calc_args.offer.offer_type = TEN_PERCENT_DISCOUNT
                /\ 0 <= calc_args.offer.argument /\ calc_args.offer.argument <= 100 )
              => (calc_ret.kind = "Discount" /\ calc_ret.discount_amount = 0)

\* Two and a half units under two for 1.50 at 1.00 each: the discount of two
\* units, -0.50, the half unit taking no part.
C21_Witness ==
    /\ calc_pc = "returned"
    /\ calc_args.quantity = Qty(2) + HalfQty
    /\ calc_args.quantity % QScale # 0
    /\ calc_args.unit_price = Cents(100)
    /\ calc_args.offer = Offer(TWO_FOR_AMOUNT, Cents(150))
    /\ calc_ret.kind = "Discount"
    /\ calc_ret.discount_amount = -Cents(50)

====
